---- MODULE Spec2Model ----
(***************************************************************************)
(* Model of the script-to-video compositor of invideo-ai-pexels:           *)
(*   src/lib/services/diffusion-studio.ts  (DiffusionStudioService)        *)
(*   src/lib/services/storage-service.ts   (StorageService)                *)
(*                                                                         *)
(* processVideoData walks the sections and points of a VideoData value,    *)
(* resolves every asset through fetchMediaWithCache (IndexedDB media       *)
(* store first, network otherwise) and issues composition.add calls.       *)
(* Every await of the code is a step of the model.  An awaited promise     *)
(* for which the code has a catch block or an onerror handler may reject   *)
(* (network, IndexedDB open/get/put, Source.from, composition.add); the    *)
(* synchronous constructors (Blob, AudioClip, VideoClip, ImageClip) do not *)
(* throw.  A call of an async function that the code does not await runs   *)
(* as a background task interleaved with the caller.                       *)
(***************************************************************************)
EXTENDS Integers, Sequences, FiniteSets, TLC

\* ------------------------------------------------------------------ bounds
\* Number of awaited operations that may fail during one run.
MaxFaults == 2

\* --------------------------------------------------------------- time model
\* private frameRate: number = 30
frameRate == 30

\* Math.floor in place of Math.round.
msToFramesFloor(ms) == (ms * frameRate) \div 1000

\* Math.round((ms / 1000) * frameRate): round half up, exact for the times used.
msToFrames(ms) == (ms * frameRate + 500) \div 1000

\* Math.round((frames / frameRate) * 1000)
framesToMs(frames) == (2 * frames * 1000 + frameRate) \div (2 * frameRate)

\* --------------------------------------------------------------------- URLs
\* A URL string is kept as its parts: origin ("" for a relative URL), the
\* path up to its last extension, that extension, and the query string
\* ("" when there is none).  The full string is origin + stem + ext + query.
Url(origin, stem, ext, query) ==
    [origin |-> origin, stem |-> stem, ext |-> ext, query |-> query]

\* The empty string (a falsy audioUrl).
NoUrl == Url("", "", "", "")

\* String.prototype.toLowerCase on the extensions that occur.
ToLowerCase(s) ==
    CASE s = ".MP4" -> ".mp4"
      [] s = ".WEBM" -> ".webm"
      [] s = ".MP3" -> ".mp3"
      [] OTHER -> s

\* url.toLowerCase().endsWith(format): the string ends with the extension
\* only when nothing (no query string) follows it.
EndsWith(url, format) == url.query = "" /\ ToLowerCase(url.ext) = format

\* const supportedFormats = ['.mp4', '.webm'];
\* return supportedFormats.some(format => url.toLowerCase().endsWith(format));
isSupportedVideoFormat(url) ==
    \E format \in {".mp4", ".webm"} : EndsWith(url, format)

AudioFormats == {".mp3", ".wav", ".m4a", ".ogg", ".aac"}

\* Query strings that occur, and what String.prototype.includes finds in them.
QueryHasAudioContentType(q) ==
    q \in {"?response-content-type=audio/mpeg", "?content-type=audio/wav"}
QueryHasAudioFormat(q) == q \in {"?file=a.mp3"}

\* url.includes('.mp3') || ... || url.includes('.aac') (case-sensitive).
IncludesAudioFormat(url) ==
    url.ext \in AudioFormats \/ QueryHasAudioFormat(url.query)

\* new URL(url) throws for a string without a scheme.
UrlParses(url) == url.origin # ""

\* The URL parsed before the content-type parameter is looked at, so that a
\* string new URL rejects gets the substring check of the catch block only.
isSupportedAudioFormatParseFirst(url) ==
    IF ~UrlParses(url) THEN IncludesAudioFormat(url)
    ELSE IF QueryHasAudioContentType(url.query) THEN TRUE
    ELSE IF ToLowerCase(url.ext) \in AudioFormats THEN TRUE
    ELSE IncludesAudioFormat(url)

\* isSupportedAudioFormat (lines 205-256): the content-type test, then
\* new URL(url) and the pathname test, then the test of the whole string;
\* the catch block runs the last test alone when new URL throws.
isSupportedAudioFormat(url) ==
    IF QueryHasAudioContentType(url.query) THEN TRUE
    ELSE IF ~UrlParses(url) THEN IncludesAudioFormat(url)
    ELSE IF ToLowerCase(url.ext) \in AudioFormats THEN TRUE
    ELSE IncludesAudioFormat(url)

\* url.startsWith('http') && !url.includes('localhost')
NeedsProxy(url) == url.origin \notin {"", "http://localhost:3000"}

\* `/api/proxy?url=${encodeURIComponent(url)}&type=${type}`
createProxyUrl(url, type) ==
    IF NeedsProxy(url)
    THEN [proxy |-> TRUE, url |-> url, type |-> type]
    ELSE [proxy |-> FALSE, url |-> url, type |-> ""]

\* ------------------------------------------------------------------- inputs
Origin == "https://cdn.example"
VideoMp4 == Url(Origin, "/v", ".mp4", "")
VideoMov == Url(Origin, "/w", ".mov", "")
Thumb == Url(Origin, "/t", ".jpg", "")
AudioMp3 == Url(Origin, "/a", ".mp3", "")
AudioFlac == Url(Origin, "/a", ".flac", "")

Point(videoUrl, startTime, endTime) ==
    [videoUrl |-> videoUrl, videoThumbnail |-> Thumb,
     startTime |-> startTime, endTime |-> endTime]

Section(audioUrl, points) == [audioUrl |-> audioUrl, points |-> points]

\* The sections the inputs are built from: the narrated single video of the
\* documentation's example, an unsupported video followed by a supported
\* one, an unsupported audio track, a section without points, and a point
\* whose endTime equals its startTime followed by an ordinary one.
SectionExample == Section(AudioMp3, << Point(VideoMp4, 0, 5000) >>)
SectionMov ==
    Section(AudioMp3, << Point(VideoMov, 5016, 5051), Point(VideoMp4, 5051, 6000) >>)
SectionFlac == Section(AudioFlac, << Point(VideoMp4, 16, 51) >>)
SectionEmpty == Section(AudioMp3, << >>)
SectionStill ==
    Section(AudioMp3, << Point(VideoMp4, 7000, 7000), Point(VideoMp4, 7000, 8000) >>)

\* The section lists processVideoData is called with.
SectionLists ==
    { << >>,
      << SectionExample >>,
      << SectionMov >>,
      << SectionFlac, SectionExample >>,
      << SectionExample, SectionEmpty >>,
      << SectionMov, SectionFlac >>,
      << SectionMov, SectionMov >>,
      << SectionExample, SectionEmpty, SectionMov >>,
      << SectionEmpty, SectionExample >>,
      << SectionStill >> }

\* VideoData: success, data (hasData is FALSE when the field is missing).
VideoDataSet ==
    { [success |-> s, hasData |-> TRUE, data |-> d] :
        s \in BOOLEAN, d \in SectionLists }
    \cup { [success |-> TRUE, hasData |-> FALSE, data |-> << >>] }

\* -------------------------------------------------------------------- state
VARIABLES
    videoData,        \* the argument of processVideoData
    hasTitle,         \* whether its title argument is given
    pc,               \* where processVideoData stands
    si,               \* index of the section processSection works on
    pi,               \* index of the point addVideoPoint works on
    sectionStartTime, \* local of processSection
    fetchCtx,         \* the fetchMediaWithCache call the walk is awaiting
    bg,               \* addPlaceholder calls that were started and not awaited
    calls,            \* composition.add calls, in the order they were issued
    cache,            \* media-store: url -> record
    dbState,          \* StorageService.dbPromise: "none", "open" or "failed"
    firstBytes,       \* url -> bytes returned by the first successful resolution
    fetched,          \* url -> number of network requests issued
    outcome,          \* result of every finished fetchMediaWithCache call
    visited,          \* points addVideoPoint was called for
    videoStore,       \* video-store records written
    faults            \* awaited operations that failed so far

\* renderToFile (the export) and the calls of the history page.
VARIABLES
    savePicker,       \* 'showSaveFilePicker' in window
    exportCall,       \* the renderToFile call in progress
    exports,          \* the renderToFile calls that have settled
    now,              \* Date.now()
    legacyDb,         \* video-store of 'script2video-db' (earlier revision)
    store,            \* video-store of the database initDB opens
    keyPath,          \* keyPath of that store
    keyGenerator,     \* its key generator (autoIncrement stores)
    activeTx,         \* the call whose transaction is running on the store
    putCall,          \* the storeVideoData call in progress
    listCall,         \* the getAllVideos call in progress
    deleteCall,       \* the deleteVideo call in progress
    timers,           \* setTimeout callbacks of getAllVideos not yet run
    updates,          \* update transactions those callbacks created
    history           \* the StorageService calls that have settled

\* The classification, conversion and proxy functions called on their own.
VARIABLES
    answer            \* the last call: its function, arguments and result

\* WebSocketService and the WebSocket objects it made.
VARIABLES
    socket,            \* this.socket: the number of a socket, 0 for null
    jobId,             \* this.jobId, 0 for null
    reconnectAttempts, \* this.reconnectAttempts
    reconnectTimeout,  \* this.reconnectTimeout: a timeout handle, 0 for null
    sockets,           \* the WebSocket objects in the order they were made
    pendingTimeouts,   \* setTimeout callbacks of attemptReconnect not yet run
    timeoutsSet,       \* number of setTimeout calls so far
    userCalls,         \* connect and disconnect calls of the application
    disconnected,      \* its last call was disconnect()
    closures           \* abnormal closures of the current socket since the
                       \* last open and the last call of the application

composerVars == << videoData, hasTitle, pc, si, pi, sectionStartTime, fetchCtx,
                   bg, calls, cache, firstBytes, fetched, outcome, visited,
                   videoStore, faults >>
walkVars == << composerVars, dbState >>
exportVars == << savePicker, exportCall, exports >>
historyVars == << now, legacyDb, store, keyPath, keyGenerator, activeTx, putCall,
                  listCall, deleteCall, timers, updates, history >>

policyVars == << answer >>
socketVars == << socket, jobId, reconnectAttempts, reconnectTimeout, sockets,
                pendingTimeouts, timeoutsSet, userCalls, disconnected, closures >>

vars == << walkVars, exportVars, historyVars, policyVars, socketVars >>

AllUrls == {VideoMp4, VideoMov, Thumb, AudioMp3, AudioFlac}

\* The bytes the origin server answers with for a URL.
Content(url) == << url.stem, url.ext >>
NoBytes == << >>

\* One fetchMediaWithCache(url, type) call: the await it stands at ("ok" and
\* "err" once it returned or threw), the buffer it holds, the message of the
\* error it threw, and whether a resolution of url had succeeded when the
\* call was made.
NewFetch(url, type) ==
    [url |-> url, type |-> type, phase |-> "getMedia", buf |-> NoBytes,
     error |-> "", late |-> url \in DOMAIN firstBytes]
NoFetch ==
    [url |-> NoUrl, type |-> "", phase |-> "idle", buf |-> NoBytes,
     error |-> "", late |-> FALSE]

Pending(f) == f.phase \in {"getMedia", "fetch", "storeMedia"}

\* ---------------------------------------------------------- StorageService
\* An initDB that opens the database again after a failed open.
initDBRetries(db) ==
    IF db \in {"none", "failed"}
    THEN {[db |-> "open", fault |-> 0], [db |-> "failed", fault |-> 1]}
    ELSE {[db |-> db, fault |-> 0]}

\* initDB: the first call opens the database and keeps the promise; a
\* rejected promise is kept as well.
initDB(db) ==
    IF db = "none"
    THEN {[db |-> "open", fault |-> 0], [db |-> "failed", fault |-> 1]}
    ELSE {[db |-> db, fault |-> 0]}

\* A lookup that never finds the record (a get on the wrong key).
GetResultAlwaysMiss(url, c) == [res |-> "miss", data |-> NoBytes]

\* store.get(url) answered: result.data when a record exists, else null.
GetResult(url, c) ==
    IF url \in DOMAIN c THEN [res |-> "hit", data |-> c[url].data]
    ELSE [res |-> "miss", data |-> NoBytes]

\* getMedia(url): null when initDB rejects (catch), the cached data or null
\* when the get request succeeds, a rejection when the request errors.
getMedia(url, c, db) ==
    UNION { IF o.db = "failed"
            THEN {[res |-> "miss", data |-> NoBytes, db |-> o.db, fault |-> o.fault]}
            ELSE { [res |-> GetResult(url, c).res, data |-> GetResult(url, c).data,
                    db |-> o.db, fault |-> o.fault],
                   [res |-> "error", data |-> NoBytes, db |-> o.db,
                    fault |-> o.fault + 1] }
          : o \in initDB(db) }

\* The object keyed by the URL the network request was sent to.
MediaObjectProxied(url, data, type) ==
    [url |-> createProxyUrl(url, type), data |-> data, type |-> type]

\* The object store.put(mediaObject) writes (keyPath 'url').
MediaObject(url, data, type) == [url |-> url, data |-> data, type |-> type]

\* A put that appends to the data of the record it finds.
PutAppend(c, rec) ==
    [u \in DOMAIN c \cup {rec.url} |->
        IF u = rec.url /\ u \in DOMAIN c
        THEN [rec EXCEPT !.data = c[u].data \o rec.data]
        ELSE IF u = rec.url THEN rec ELSE c[u]]

\* store.put(mediaObject): the record of the key is replaced.
Put(c, rec) ==
    [u \in DOMAIN c \cup {rec.url} |-> IF u = rec.url THEN rec ELSE c[u]]

\* storeMedia(url, data, type): rejects when initDB rejects or the put
\* request errors, resolves on the put request's success.
storeMedia(url, data, type, c, db) ==
    UNION { IF o.db = "failed"
            THEN {[ok |-> FALSE, cache |-> c, db |-> o.db, fault |-> o.fault]}
            ELSE { [ok |-> TRUE, cache |-> Put(c, MediaObject(url, data, type)),
                    db |-> o.db, fault |-> o.fault],
                   [ok |-> FALSE, cache |-> c, db |-> o.db, fault |-> o.fault + 1] }
          : o \in initDB(db) }

\* --------------------------------------------------- fetchMediaWithCache
\* if (cachedData) return cachedData; otherwise go to the network.
AfterGetMedia(f, g) ==
    CASE g.res = "hit" -> [f EXCEPT !.phase = "ok", !.buf = g.data]
      [] g.res = "miss" -> [f EXCEPT !.phase = "fetch"]
      [] OTHER -> [f EXCEPT !.phase = "err", !.error = "Failed to retrieve media"]

\* The response.ok check left out: the body of a failed response is kept.
AfterFetchUnchecked(f, responseOk) ==
    [f EXCEPT !.phase = "storeMedia", !.buf = Content(f.url)]

\* if (!response.ok) throw ...; const buffer = await response.arrayBuffer();
AfterFetch(f, responseOk) ==
    IF responseOk
    THEN [f EXCEPT !.phase = "storeMedia", !.buf = Content(f.url)]
    ELSE [f EXCEPT !.phase = "err", !.error = "Failed to fetch"]

\* await storageService.storeMedia(url, buffer, type); return buffer;
AfterStoreMedia(f, stored) ==
    IF stored THEN [f EXCEPT !.phase = "ok"]
    ELSE [f EXCEPT !.phase = "err", !.error = "Failed to store media"]

\* The steps a pending call can take next: the frame after the step, the
\* media store and database after it, the failures the step used up, and
\* the URL requested from the network (NoUrl when none).
FetchSteps(f, c, db) ==
    CASE f.phase = "getMedia" ->
            { [f |-> AfterGetMedia(f, g), cache |-> c, db |-> g.db,
               fault |-> g.fault, net |-> NoUrl] : g \in getMedia(f.url, c, db) }
      [] f.phase = "fetch" ->
            { [f |-> AfterFetch(f, ok), cache |-> c, db |-> db,
               fault |-> IF ok THEN 0 ELSE 1, net |-> createProxyUrl(f.url, f.type).url]
              : ok \in BOOLEAN }
      [] f.phase = "storeMedia" ->
            { [f |-> AfterStoreMedia(f, s.ok), cache |-> s.cache, db |-> s.db,
               fault |-> s.fault, net |-> NoUrl]
              : s \in storeMedia(f.url, f.buf, f.type, c, db) }
      [] OTHER -> {}

\* firstBytes after a call finished: the first buffer returned for a URL.
Returned(fb, f) ==
    IF f.phase = "ok" /\ f.url \notin DOMAIN fb
    THEN [u \in DOMAIN fb \cup {f.url} |-> IF u = f.url THEN f.buf ELSE fb[u]]
    ELSE fb

Requested(n, url) ==
    IF url = NoUrl THEN n ELSE [n EXCEPT ![url] = @ + 1]

\* ------------------------------------------------- DiffusionStudioService
\* The validation without its success test.
InvalidVideoDataNoSuccess(vd) == ~vd.hasData \/ Len(vd.data) = 0

\* if (!videoData.success || !videoData.data || videoData.data.length === 0)
InvalidVideoData(vd) == ~vd.success \/ ~vd.hasData \/ Len(vd.data) = 0

\* The section start left at its initial value.
SectionStartTimeZero(section) == 0

\* processSection: sectionStartTime = 0 unless the section has points, then
\* the startTime of its first point.
SectionStartTime(section) ==
    IF Len(section.points) > 0 THEN section.points[1].startTime ELSE 0

\* A duration of at least one frame.
VideoDurationAtLeastOne(point) ==
    IF msToFrames(point.endTime - point.startTime) = 0 THEN 1
    ELSE msToFrames(point.endTime - point.startTime)

\* addVideoPoint: const durationFrames = this.msToFrames(point.endTime - point.startTime)
VideoDurationFrames(point) == msToFrames(point.endTime - point.startTime)

\* The placeholder duration computed the way addVideoPoint computes it.
PlaceholderDurationByMs(point) == msToFrames(point.endTime - point.startTime)

\* addPlaceholder: const durationFrames = endFrame - startFrame
PlaceholderDurationFrames(point) ==
    msToFrames(point.endTime) - msToFrames(point.startTime)

\* extractThumbnail(videoData)
extractThumbnail(vd) ==
    IF vd.hasData /\ Len(vd.data) > 0 /\ Len(vd.data[1].points) > 0
    THEN vd.data[1].points[1].videoThumbnail
    ELSE NoUrl

\* Where the walk stands after point p of section s is done (p = 0: after the
\* section's audio): the next point, the next section, or the end.
Advance(s, p) ==
    IF p < Len(videoData.data[s].points)
    THEN [pc |-> "addVideoPoint", si |-> s, pi |-> p + 1]
    ELSE IF s < Len(videoData.data)
    THEN [pc |-> "processSection", si |-> s + 1, pi |-> 0]
    ELSE [pc |-> "resolved", si |-> s, pi |-> p]

Goto(a) == pc' = a.pc /\ si' = a.si /\ pi' = a.pi

\* The audio error rethrown to processVideoData instead of being logged.
AudioCatchRethrow(s) == [pc |-> "rejected", si |-> s, pi |-> 0]

\* The catch blocks of processSection's audio part: continue without audio.
AudioCatch(s) == Advance(s, 0)

\* A composition.add(clip) call.
AddCall(kind, s, p, frame, dur, ok) ==
    [kind |-> kind, sec |-> s, pt |-> p, frame |-> frame, dur |-> dur, ok |-> ok]

\* What is remembered of a finished fetchMediaWithCache call, and of a
\* core.Source.from call that rejected.
Finished(s, p, f) == [sec |-> s, pt |-> p, type |-> f.type, ok |-> f.phase = "ok"]
SourceFailed(s, p) == [sec |-> s, pt |-> p, type |-> "source", ok |-> FALSE]

\* No renderToFile call, and no StorageService call of the history page.
NoEncoder == [id |-> 0, fps |-> 0, video |-> "", audio |-> ""]
NoExport == [filename |-> "", at |-> "idle", attempts |-> << >>, result |-> << >>,
             encoder |-> NoEncoder]
NoCall == [at |-> "idle"]
NoAnswer == [fn |-> "none"]
ExportIdle == savePicker = FALSE /\ exportCall = NoExport /\ exports = << >>
PolicyIdle == answer = NoAnswer
SocketIdle ==
    /\ socket = 0 /\ jobId = 0 /\ reconnectAttempts = 0 /\ reconnectTimeout = 0
    /\ sockets = << >> /\ pendingTimeouts = {} /\ timeoutsSet = 0
    /\ userCalls = 0 /\ disconnected = FALSE /\ closures = 0
HistoryIdle ==
    /\ now = 0 /\ legacyDb = {} /\ store = {} /\ keyPath = "uniqueId"
    /\ keyGenerator = 0 /\ activeTx = "none"
    /\ putCall = NoCall /\ listCall = NoCall /\ deleteCall = NoCall
    /\ timers = << >> /\ updates = << >> /\ history = << >>

Init ==
    /\ ExportIdle
    /\ HistoryIdle
    /\ PolicyIdle
    /\ SocketIdle
    /\ videoData \in VideoDataSet
    /\ hasTitle \in BOOLEAN
    /\ pc = "processVideoData"
    /\ si = 0
    /\ pi = 0
    /\ sectionStartTime = 0
    /\ fetchCtx = NoFetch
    /\ bg = {}
    /\ calls = << >>
    /\ cache = << >>
    /\ dbState = "none"
    /\ firstBytes = << >>
    /\ fetched = [u \in AllUrls |-> 0]
    /\ outcome = {}
    /\ visited = {}
    /\ videoStore = {}
    /\ faults = 0

\* processVideoData, up to the history write (lines 111-130).
Validate ==
    /\ pc = "processVideoData"
    /\ IF InvalidVideoData(videoData)
       THEN pc' = "rejected" /\ UNCHANGED << si, pi >>
       ELSE IF hasTitle
       THEN pc' = "storeVideoData" /\ UNCHANGED << si, pi >>
       ELSE Goto([pc |-> "processSection", si |-> 1, pi |-> 0])
    /\ UNCHANGED << videoData, hasTitle, sectionStartTime, fetchCtx, bg, calls,
                    cache, dbState, firstBytes, fetched, outcome, visited,
                    videoStore, faults >>
    /\ UNCHANGED << exportVars, historyVars, policyVars, socketVars >>

\* The record storeVideoData adds.
VideoObject(vd) == [uniqueId |-> "video_1", videoData |-> vd,
                    thumbnail |-> extractThumbnail(vd)]

\* await storageService.storeVideoData(videoData, title) in its try/catch
\* (lines 130-138).  The call rejects when initDB or the add request fails,
\* and resolves when the transaction completes; when the transaction aborts
\* after the add request succeeded no handler settles the promise.
StoreVideoData ==
    /\ pc = "storeVideoData"
    /\ \E o \in initDB(dbState) :
        /\ dbState' = o.db
        /\ \/ /\ o.db = "open"
              /\ videoStore' = videoStore \cup {VideoObject(videoData)}
              /\ faults' = faults + o.fault
              /\ Goto([pc |-> "processSection", si |-> 1, pi |-> 0])
           \/ /\ o.db = "failed"
              /\ faults + o.fault <= MaxFaults
              /\ faults' = faults + o.fault
              /\ Goto([pc |-> "processSection", si |-> 1, pi |-> 0])
              /\ UNCHANGED videoStore
           \/ /\ o.db = "open"
              /\ faults + o.fault < MaxFaults
              /\ faults' = faults + o.fault + 1
              /\ \/ Goto([pc |-> "processSection", si |-> 1, pi |-> 0])
                 \/ pc' = "unsettled" /\ UNCHANGED << si, pi >>
              /\ UNCHANGED videoStore
    /\ UNCHANGED << videoData, hasTitle, sectionStartTime, fetchCtx, bg, calls,
                    cache, firstBytes, fetched, outcome, visited >>
    /\ UNCHANGED << exportVars, historyVars, policyVars, socketVars >>

\* processSection up to its first await (lines 262-292).
ProcessSection ==
    /\ pc = "processSection"
    /\ LET section == videoData.data[si] IN
        /\ sectionStartTime' = SectionStartTime(section)
        /\ IF section.audioUrl # NoUrl /\ isSupportedAudioFormat(section.audioUrl)
           THEN /\ fetchCtx' = NewFetch(section.audioUrl, "audio")
                /\ pc' = "audioFetch"
                /\ UNCHANGED << si, pi >>
           ELSE /\ Goto(Advance(si, 0))
                /\ UNCHANGED fetchCtx
    /\ UNCHANGED << videoData, hasTitle, bg, calls, cache, dbState, firstBytes,
                    fetched, outcome, visited, videoStore, faults >>
    /\ UNCHANGED << exportVars, historyVars, policyVars, socketVars >>

\* One await of the fetchMediaWithCache call the walk is waiting for.
WalkFetch ==
    /\ pc \in {"audioFetch", "videoFetch", "placeholderFetch"}
    /\ \E r \in FetchSteps(fetchCtx, cache, dbState) :
        /\ faults + r.fault <= MaxFaults
        /\ fetchCtx' = r.f
        /\ cache' = r.cache
        /\ dbState' = r.db
        /\ faults' = faults + r.fault
        /\ fetched' = Requested(fetched, r.net)
        /\ firstBytes' = Returned(firstBytes, r.f)
    /\ UNCHANGED << videoData, hasTitle, pc, si, pi, sectionStartTime, bg, calls,
                    outcome, visited, videoStore >>
    /\ UNCHANGED << exportVars, historyVars, policyVars, socketVars >>

\* fetchMediaWithCache(section.audioUrl) threw: continue without audio
\* (lines 317-320).
AudioFetchFailed ==
    /\ pc = "audioFetch" /\ fetchCtx.phase = "err"
    /\ outcome' = outcome \cup {Finished(si, 0, fetchCtx)}
    /\ fetchCtx' = NoFetch
    /\ Goto(AudioCatch(si))
    /\ UNCHANGED << videoData, hasTitle, sectionStartTime, bg, calls, cache,
                    dbState, firstBytes, fetched, visited, videoStore, faults >>
    /\ UNCHANGED << exportVars, historyVars, policyVars, socketVars >>

\* await core.Source.from(audioBlob) (line 299).
AudioSource ==
    /\ pc = "audioFetch" /\ fetchCtx.phase = "ok"
    /\ fetchCtx' = NoFetch
    /\ \/ /\ pc' = "audioAdd"
          /\ outcome' = outcome \cup {Finished(si, 0, fetchCtx)}
          /\ UNCHANGED << si, pi, faults >>
       \/ /\ faults < MaxFaults
          /\ faults' = faults + 1
          /\ outcome' = outcome \cup {Finished(si, 0, fetchCtx), SourceFailed(si, 0)}
          /\ Goto(AudioCatch(si))
    /\ UNCHANGED << videoData, hasTitle, sectionStartTime, bg, calls, cache,
                    dbState, firstBytes, fetched, visited, videoStore >>
    /\ UNCHANGED << exportVars, historyVars, policyVars, socketVars >>

\* audioClip.offset(startFrames); await this.composition.add(audioClip)
\* (lines 308-320).
AudioAdd ==
    /\ pc = "audioAdd"
    /\ \E ok \in BOOLEAN :
        /\ ok \/ faults < MaxFaults
        /\ faults' = IF ok THEN faults ELSE faults + 1
        /\ calls' = Append(calls,
                 AddCall("audio", si, 0, msToFrames(sectionStartTime), 0, ok))
        /\ Goto(IF ok THEN Advance(si, 0) ELSE AudioCatch(si))
    /\ UNCHANGED << videoData, hasTitle, sectionStartTime, fetchCtx, bg, cache,
                    dbState, firstBytes, fetched, outcome, visited, videoStore >>
    /\ UNCHANGED << exportVars, historyVars, policyVars, socketVars >>

\* An addPlaceholder(point) call up to its first await (lines 426-438).
Placeholder(s, p) ==
    [sec |-> s, pt |-> p,
     f |-> NewFetch(videoData.data[s].points[p].videoThumbnail, "image")]

\* The composition.add(imageClip) call of addPlaceholder (lines 447-464):
\* offset(startFrame), trim(0, durationFrames).
PlaceholderCall(s, p) ==
    LET point == videoData.data[s].points[p] IN
    AddCall("image", s, p, msToFrames(point.startTime),
            PlaceholderDurationFrames(point), TRUE)

\* The video clip counted as inserted although composition.add rejected.
VideoCallInserted(s, p, ok) ==
    LET point == videoData.data[s].points[p] IN
    AddCall("video", s, p, msToFrames(point.startTime),
            VideoDurationFrames(point), TRUE)

\* The composition.add(videoClip) call of addVideoPoint (lines 381-397):
\* offset(startFrame), subclip(0, durationFrames).
VideoCall(s, p, ok) ==
    LET point == videoData.data[s].points[p] IN
    AddCall("video", s, p, msToFrames(point.startTime),
            VideoDurationFrames(point), ok)

\* addVideoPoint up to its first await (lines 341-370).  For an unsupported
\* format addPlaceholder is called without await and addVideoPoint returns.
AddVideoPoint ==
    /\ pc = "addVideoPoint"
    /\ visited' = visited \cup {<< si, pi >>}
    /\ IF ~isSupportedVideoFormat(videoData.data[si].points[pi].videoUrl)
       THEN /\ bg' = bg \cup {Placeholder(si, pi)}
            /\ Goto(Advance(si, pi))
            /\ UNCHANGED fetchCtx
       ELSE /\ fetchCtx' = NewFetch(videoData.data[si].points[pi].videoUrl, "video")
            /\ pc' = "videoFetch"
            /\ UNCHANGED << si, pi, bg >>
    /\ UNCHANGED << videoData, hasTitle, sectionStartTime, calls, cache, dbState,
                    firstBytes, fetched, outcome, videoStore, faults >>
    /\ UNCHANGED << exportVars, historyVars, policyVars, socketVars >>

\* The inner catch of addVideoPoint: await this.addPlaceholder(point)
\* (lines 399-403).
AwaitPlaceholder ==
    /\ fetchCtx' = Placeholder(si, pi).f
    /\ pc' = "placeholderFetch"
    /\ UNCHANGED << si, pi >>

\* fetchMediaWithCache(originalUrl, 'video') threw.
VideoFetchFailed ==
    /\ pc = "videoFetch" /\ fetchCtx.phase = "err"
    /\ outcome' = outcome \cup {Finished(si, pi, fetchCtx)}
    /\ AwaitPlaceholder
    /\ UNCHANGED << videoData, hasTitle, sectionStartTime, bg, calls, cache,
                    dbState, firstBytes, fetched, visited, videoStore, faults >>
    /\ UNCHANGED << exportVars, historyVars, policyVars, socketVars >>

\* await core.Source.from(videoBlob) (line 377).
VideoSource ==
    /\ pc = "videoFetch" /\ fetchCtx.phase = "ok"
    /\ \/ /\ pc' = "videoAdd"
          /\ fetchCtx' = NoFetch
          /\ outcome' = outcome \cup {Finished(si, pi, fetchCtx)}
          /\ UNCHANGED << si, pi, faults >>
       \/ /\ faults < MaxFaults
          /\ faults' = faults + 1
          /\ outcome' = outcome \cup {Finished(si, pi, fetchCtx), SourceFailed(si, pi)}
          /\ AwaitPlaceholder
    /\ UNCHANGED << videoData, hasTitle, sectionStartTime, bg, calls, cache,
                    dbState, firstBytes, fetched, visited, videoStore >>
    /\ UNCHANGED << exportVars, historyVars, policyVars, socketVars >>

\* await this.composition.add(videoClip) (lines 390-403).
VideoAdd ==
    /\ pc = "videoAdd"
    /\ \E ok \in BOOLEAN :
        /\ ok \/ faults < MaxFaults
        /\ faults' = IF ok THEN faults ELSE faults + 1
        /\ calls' = Append(calls, VideoCall(si, pi, ok))
        /\ IF ok
           THEN Goto(Advance(si, pi)) /\ UNCHANGED fetchCtx
           ELSE AwaitPlaceholder
    /\ UNCHANGED << videoData, hasTitle, sectionStartTime, bg, cache, dbState,
                    firstBytes, fetched, outcome, visited, videoStore >>
    /\ UNCHANGED << exportVars, historyVars, policyVars, socketVars >>

\* The image clip added whether or not the thumbnail was resolved.
AfterPlaceholderAlways(s, p, f) == Append(calls, PlaceholderCall(s, p))

\* The calls log after an addPlaceholder call's fetch finished: the image
\* clip is added when the thumbnail was resolved, nothing when it was not
\* (lines 438-468).
AfterPlaceholder(s, p, f) ==
    IF f.phase = "ok" THEN Append(calls, PlaceholderCall(s, p)) ELSE calls

\* The awaited addPlaceholder call returns to addVideoPoint, which returns
\* to the loop of processSection.
PlaceholderDone ==
    /\ pc = "placeholderFetch" /\ fetchCtx.phase \in {"ok", "err"}
    /\ outcome' = outcome \cup {Finished(si, pi, fetchCtx)}
    /\ calls' = AfterPlaceholder(si, pi, fetchCtx)
    /\ fetchCtx' = NoFetch
    /\ Goto(Advance(si, pi))
    /\ UNCHANGED << videoData, hasTitle, sectionStartTime, bg, cache, dbState,
                    firstBytes, fetched, visited, videoStore, faults >>
    /\ UNCHANGED << exportVars, historyVars, policyVars, socketVars >>

\* One await of the fetchMediaWithCache call of a background addPlaceholder.
BackgroundFetch ==
    /\ \E t \in bg : \E r \in FetchSteps(t.f, cache, dbState) :
        /\ faults + r.fault <= MaxFaults
        /\ bg' = (bg \ {t}) \cup {[t EXCEPT !.f = r.f]}
        /\ cache' = r.cache
        /\ dbState' = r.db
        /\ faults' = faults + r.fault
        /\ fetched' = Requested(fetched, r.net)
        /\ firstBytes' = Returned(firstBytes, r.f)
    /\ UNCHANGED << videoData, hasTitle, pc, si, pi, sectionStartTime, fetchCtx,
                    calls, outcome, visited, videoStore >>
    /\ UNCHANGED << exportVars, historyVars, policyVars, socketVars >>

\* A background addPlaceholder call runs to its end.
BackgroundDone ==
    /\ \E t \in bg :
        /\ t.f.phase \in {"ok", "err"}
        /\ outcome' = outcome \cup {Finished(t.sec, t.pt, t.f)}
        /\ calls' = AfterPlaceholder(t.sec, t.pt, t.f)
        /\ bg' = bg \ {t}
    /\ UNCHANGED << videoData, hasTitle, pc, si, pi, sectionStartTime, fetchCtx,
                    cache, dbState, firstBytes, fetched, visited, videoStore,
                    faults >>
    /\ UNCHANGED << exportVars, historyVars, policyVars, socketVars >>

Next ==
    \/ Validate
    \/ StoreVideoData
    \/ ProcessSection
    \/ WalkFetch
    \/ AudioFetchFailed
    \/ AudioSource
    \/ AudioAdd
    \/ AddVideoPoint
    \/ VideoFetchFailed
    \/ VideoSource
    \/ VideoAdd
    \/ PlaceholderDone
    \/ BackgroundFetch
    \/ BackgroundDone

Spec == Init /\ [][Next]_vars

\* Nothing is running any more.
Quiescent == pc \in {"resolved", "rejected", "unsettled"} /\ bg = {}

\* ------------------------------------------------------------ renderToFile
\* Number of renderToFile calls in one run.
MaxExports == 2

\* processVideoData is not running.
WalkIdle ==
    /\ videoData = [success |-> TRUE, hasData |-> TRUE, data |-> << SectionExample >>]
    /\ hasTitle = FALSE /\ pc = "resolved" /\ si = 1 /\ pi = 1
    /\ sectionStartTime = 0 /\ fetchCtx = NoFetch /\ bg = {} /\ calls = << >>
    /\ cache = << >> /\ dbState = "none" /\ firstBytes = << >>
    /\ fetched = [u \in AllUrls |-> 0] /\ outcome = {} /\ visited = {}
    /\ videoStore = {} /\ faults = 0

Filenames == {"video.mp4", ""}

\* The capability test skipped: the picker is always called.
HasSaveFilePickerAlways(w) == TRUE

\* 'showSaveFilePicker' in window
HasSaveFilePicker(w) == w

\* What await window.showSaveFilePicker(...) rejects with: the user cancels
\* (AbortError) or the browser refuses (SecurityError); calling it where it
\* does not exist is a TypeError.
PickerErrors(w) == IF w THEN {"AbortError", "SecurityError"} ELSE {"TypeError"}

\* What await encoder.render(...) rejects with.
RenderErrors == {"EncoderError"}

\* const encoder = new core.Encoder(this.composition, {...}) (lines 481-496):
\* the n-th encoder object made, with its settings.
Encoder(n) == [id |-> n, fps |-> 30, video |-> "avc", audio |-> "aac"]

\* One awaited call of renderToFile: the strategy it belongs to and the
\* error it rejected with ("" when it resolved).
Attempt(strategy, call, error) == [strategy |-> strategy, call |-> call, error |-> error]

\* return '...' and throw new Error(`Failed to render video: ${message}`).
Resolved(c, value) == [c EXCEPT !.at = "settled", !.result = << "resolved", value >>]
Rejected(c, cause) ==
    [c EXCEPT !.at = "settled",
              !.result = << "rejected", "Failed to render video: ", cause >>]

\* An encoder.render(...) call: an attempt, on the encoder of the call.
Render(c, strategy, error) ==
    [strategy |-> strategy, call |-> "render", error |-> error,
     encoder |-> c.encoder]

\* The return after the render to the file handle left out: the code goes on
\* to the download.
HandleRenderedFallsThrough(c) ==
    [c EXCEPT !.at = "render", !.attempts = Append(@, Render(c, 1, ""))]

\* await encoder.render(fileHandle) resolved: return '...' (lines 516-517).
HandleRendered(c) ==
    Resolved([c EXCEPT !.attempts = Append(@, Render(c, 1, ""))],
             << "Video saved successfully using File System Access API" >>)

\* The inner catch left out: the error reaches the outer catch.
FsErrorRethrown(c, a) == Rejected([c EXCEPT !.attempts = Append(@, a)], a.error)

\* catch (fsError) { console.warn(...) }: fall through to the download.
FsErrorCaught(c, a) == [c EXCEPT !.at = "render", !.attempts = Append(@, a)]

\* A step of the call in progress; a settled call is filed.
ExportStep(c) ==
    IF c.at = "settled"
    THEN exportCall' = NoExport /\ exports' = Append(exports, c)
    ELSE exportCall' = c /\ UNCHANGED exports

\* renderToFile(filename) up to its first await (lines 476-503).
RenderToFile ==
    /\ exportCall = NoExport
    /\ Len(exports) < MaxExports
    /\ \E filename \in Filenames :
        exportCall' = [filename |-> filename,
                       at |-> IF HasSaveFilePicker(savePicker)
                              THEN "showSaveFilePicker" ELSE "render",
                       attempts |-> << >>, result |-> << >>,
                       encoder |-> Encoder(Len(exports) + 1)]
    /\ UNCHANGED << savePicker, exports, walkVars, historyVars, policyVars, socketVars >>

\* const fileHandle = await window.showSaveFilePicker(...) (line 505).
ShowSaveFilePicker ==
    /\ exportCall.at = "showSaveFilePicker"
    /\ \/ /\ savePicker
          /\ ExportStep([exportCall EXCEPT
                  !.at = "renderHandle",
                  !.attempts = Append(@, Attempt(1, "showSaveFilePicker", ""))])
       \/ \E e \in PickerErrors(savePicker) :
            ExportStep(FsErrorCaught(exportCall, Attempt(1, "showSaveFilePicker", e)))
    /\ UNCHANGED << savePicker, walkVars, historyVars, policyVars, socketVars >>

\* await encoder.render(fileHandle); return '...' (lines 516-517).
RenderToHandle ==
    /\ exportCall.at = "renderHandle"
    /\ \/ ExportStep(HandleRendered(exportCall))
       \/ \E e \in RenderErrors :
            ExportStep(FsErrorCaught(exportCall, Render(exportCall, 1, e)))
    /\ UNCHANGED << savePicker, walkVars, historyVars, policyVars, socketVars >>

\* await encoder.render(filename); return `Video downloaded as ${filename}`
\* and the outer catch (lines 526-531).
RenderToFilename ==
    /\ exportCall.at = "render"
    /\ \/ ExportStep(Resolved(
              [exportCall EXCEPT !.attempts = Append(@, Render(exportCall, 2, ""))],
              << "Video downloaded as ", exportCall.filename >>))
       \/ \E e \in RenderErrors :
            ExportStep(Rejected(
              [exportCall EXCEPT !.attempts = Append(@, Render(exportCall, 2, e))], e))
    /\ UNCHANGED << savePicker, walkVars, historyVars, policyVars, socketVars >>

InitExport ==
    /\ WalkIdle
    /\ HistoryIdle
    /\ PolicyIdle
    /\ SocketIdle
    /\ savePicker \in BOOLEAN
    /\ exportCall = NoExport
    /\ exports = << >>

NextExport ==
    \/ RenderToFile
    \/ ShowSaveFilePicker
    \/ RenderToHandle
    \/ RenderToFilename

SpecExport == InitExport /\ [][NextExport]_vars

\* ------------------------------------------------- video history store
\* Number of StorageService calls the history page makes in one run, and the
\* number of milliseconds the clock advances.
MaxCalls == 2
MaxTicks == 1

\* Date.now() when the page is loaded.
StartTime == 103

\* Math.random().toString(36).substring(2, 9): the suffixes that are drawn.
RandomSuffixes == {1, 2}

\* `video_${Date.now()}_${Math.random().toString(36).substring(2, 9)}`
UniqueId(t, r) == << t, r >>
NoId == << >>

\* A key that is a number (a generated id, or a timestamp).
NumberKey(n) == << n >>

\* A record of the video store: its primary key, its uniqueId (NoId when the
\* property is missing), its timestamp and its title (which stands for the
\* videoData and thumbnail as well).
Video(key, uniqueId, timestamp, title) ==
    [key |-> key, uniqueId |-> uniqueId, timestamp |-> timestamp, title |-> title]

\* The records the earlier revision wrote: { videoData, title, timestamp,
\* thumbnail } under keyPath 'id', autoIncrement.
LegacyVideo(id, timestamp, title) == Video(NumberKey(id), NoId, timestamp, title)
LegacyStores ==
    { {},
      { LegacyVideo(1, 101, << "old", 1 >>) } }

\* A record is in the old format: !record.uniqueId && 'id' in record.
IsOldFormat(record) == record.uniqueId = NoId

\* The order of two keys: a number is less than a string; uniqueId strings
\* begin with the timestamp.
KeyLess(a, b) ==
    IF Len(a) # Len(b) THEN Len(a) < Len(b)
    ELSE a[1] < b[1] \/ (a[1] = b[1] /\ Len(a) = 2 /\ a[2] < b[2])

\* The cursor opened in direction 'next': ascending timestamps.
BeforeNext(a, b) ==
    \/ a.timestamp < b.timestamp
    \/ a.timestamp = b.timestamp /\ KeyLess(a.key, b.key)

\* store.index('timestamp').openCursor(null, 'prev'): record a comes before
\* record b when its timestamp is later (its key, for equal timestamps).
Before(a, b) ==
    \/ a.timestamp > b.timestamp
    \/ a.timestamp = b.timestamp /\ KeyLess(b.key, a.key)

\* The records in the order the cursor yields them.
RECURSIVE CursorOrder(_)
CursorOrder(S) ==
    IF S = {} THEN << >>
    ELSE LET first == CHOOSE r \in S : \A o \in S \ {r} : Before(r, o)
         IN << first >> \o CursorOrder(S \ {first})

\* store.add(record): the key is record[keyPath]; an autoIncrement store
\* generates it when the property is missing.  The request fails with a
\* ConstraintError when the key exists.
AddKey(record) ==
    IF keyPath = "id" THEN NumberKey(keyGenerator + 1) ELSE record.uniqueId
CanAdd(record, S) == \A r \in S : r.key # AddKey(record)
Add(record, S) == S \cup {[record EXCEPT !.key = AddKey(record)]}

\* store.delete(key)
Delete(key, S) == { r \in S : r.key # key }

\* A StorageService call: its number, where it stands, the state of the
\* promise it returned, the value it resolved with, and how the transaction
\* of a deleteVideo call ended ("complete", "abort", "error").
Call(op, n, at) ==
    [op |-> op, n |-> n, at |-> at, promise |-> "pending", id |-> NoId,
     title |-> << >>, record |-> << >>, rest |-> << >>, result |-> << >>,
     cursorKey |-> << >>, oldRead |-> {}, assigned |-> << >>, quiet |-> FALSE,
     opened |-> FALSE, tx |-> "none"]

\* The page makes one call at a time: it awaits each call before the next.
InFlight == {putCall, listCall, deleteCall} \ {NoCall}
CallsMade == Len(history) + Cardinality(InFlight)

\* What a result array holds of a record.
Entry(record) ==
    [uniqueId |-> record.uniqueId, timestamp |-> record.timestamp,
     title |-> record.title]

\* A call has settled (or its transaction has ended): it is filed.
Filed(c) == Append(history, [c EXCEPT !.at = "done"])

\* The promise resolved as soon as the add request succeeds, as the earlier
\* revision did.
AddSucceededResolves(c) == [c EXCEPT !.at = "transaction", !.promise = "resolved"]

\* request.onsuccess of storeVideoData: only installs transaction.oncomplete.
AddSucceeded(c) == [c EXCEPT !.at = "transaction"]

\* transaction.oncomplete: resolve(uniqueId).
TransactionCompleted(c) ==
    [c EXCEPT !.promise = IF @ = "pending" THEN "resolved" ELSE @]

\* The transaction aborts after the add request succeeded: the abort event
\* is fired at the transaction, for which storeVideoData sets no onabort
\* handler; no error event is fired, since no request is pending.
TransactionAborted(c) == c

\* The page calls storeVideoData(videoData, title).
StoreVideoDataCall ==
    /\ InFlight = {}
    /\ CallsMade < MaxCalls
    /\ putCall' = [Call("put", CallsMade + 1, "initDB") EXCEPT
                      !.title = << "new", CallsMade + 1 >>]
    /\ UNCHANGED << now, legacyDb, store, keyPath, keyGenerator, activeTx,
                    listCall, deleteCall, timers, updates, history, dbState,
                    composerVars, exportVars, policyVars, socketVars >>

\* storeVideoData: await this.initDB(), then the transaction, the uniqueId
\* and the videoObject (lines 152-168); the catch rethrows (193-196).
StoreVideoDataOpen ==
    /\ putCall.at = "initDB"
    /\ \E o \in initDB(dbState) :
        /\ dbState' = o.db
        /\ IF o.db = "failed"
           THEN /\ history' = Filed([putCall EXCEPT !.promise = "rejected"])
                /\ putCall' = NoCall
           ELSE /\ \E r \in RandomSuffixes :
                    putCall' = [putCall EXCEPT
                        !.at = "add",
                        !.opened = TRUE,
                        !.id = UniqueId(now, r),
                        !.record = Video(NoId, UniqueId(now, r), now, putCall.title)]
                /\ UNCHANGED history
    /\ UNCHANGED << now, legacyDb, store, keyPath, keyGenerator, activeTx,
                    listCall, deleteCall, timers, updates, composerVars,
                    exportVars, policyVars, socketVars >>

\* const request = store.add(videoObject) and its handlers (lines 170-186).
\* Transactions on the video store run in the order they were created: the
\* update transactions of an earlier getAllVideos come first.
StoreVideoDataAdd ==
    /\ putCall.at = "add"
    /\ activeTx = "none" /\ updates = << >>
    /\ \/ /\ CanAdd(putCall.record, store)
          /\ putCall' = AddSucceeded(putCall)
          /\ activeTx' = "put"
          /\ UNCHANGED history
       \/ /\ history' = Filed([putCall EXCEPT !.promise = "rejected"])
          /\ putCall' = NoCall
          /\ UNCHANGED activeTx
    /\ UNCHANGED << now, legacyDb, store, keyPath, keyGenerator, listCall,
                    deleteCall, timers, updates, dbState, composerVars,
                    exportVars, policyVars, socketVars >>

\* The transaction of storeVideoData ends: it commits (oncomplete) or aborts.
StoreVideoDataTransaction ==
    /\ putCall.at = "transaction"
    /\ \/ /\ store' = Add(putCall.record, store)
          /\ keyGenerator' = IF keyPath = "id" THEN keyGenerator + 1 ELSE keyGenerator
          /\ history' = Filed(TransactionCompleted(putCall))
       \/ /\ history' = Filed(TransactionAborted(putCall))
          /\ UNCHANGED << store, keyGenerator >>
    /\ putCall' = NoCall
    /\ activeTx' = "none"
    /\ UNCHANGED << now, legacyDb, keyPath, listCall, deleteCall, timers,
                    updates, dbState, composerVars, exportVars, policyVars, socketVars >>

\* The last call was a deleteVideo that resolved.
AfterDelete ==
    /\ history # << >>
    /\ history[Len(history)].op = "delete"
    /\ history[Len(history)].promise = "resolved"

\* The page calls getAllVideos(): when it is mounted (useEffect), and so
\* once more when it is mounted again after a deletion.
GetAllVideosCall ==
    /\ InFlight = {}
    /\ CallsMade < MaxCalls \/ AfterDelete
    /\ listCall' = [Call("list", CallsMade + 1, "initDB") EXCEPT
                       !.quiet = (timers = << >> /\ updates = << >>)]
    /\ UNCHANGED << now, legacyDb, store, keyPath, keyGenerator, activeTx,
                    putCall, deleteCall, timers, updates, history, dbState,
                    composerVars, exportVars, policyVars, socketVars >>

\* getAllVideos: await this.initDB() (line 241); the catch returns []
\* (lines 311-314).
GetAllVideosOpen ==
    /\ listCall.at = "initDB"
    /\ \E o \in initDB(dbState) :
        /\ dbState' = o.db
        /\ IF o.db = "failed"
           THEN /\ history' = Filed([listCall EXCEPT !.promise = "resolved"])
                /\ listCall' = NoCall
           ELSE /\ listCall' = [listCall EXCEPT !.at = "openCursor", !.opened = TRUE]
                /\ UNCHANGED history
    /\ UNCHANGED << now, legacyDb, store, keyPath, keyGenerator, activeTx,
                    putCall, deleteCall, timers, updates, composerVars,
                    exportVars, policyVars, socketVars >>

\* store.index('timestamp').openCursor(null, 'prev') in the readonly
\* transaction (lines 242-251).
GetAllVideosOpenCursor ==
    /\ listCall.at = "openCursor"
    /\ activeTx = "none" /\ updates = << >>
    /\ activeTx' = "list"
    /\ listCall' = [listCall EXCEPT !.at = "cursor", !.rest = CursorOrder(store)]
    /\ UNCHANGED << now, legacyDb, store, keyPath, keyGenerator, putCall,
                    deleteCall, timers, updates, history, dbState,
                    composerVars, exportVars, policyVars, socketVars >>

\* The newFormatRecord built for an old format record (lines 260-266).
NewFormatRecord(record, t, r) ==
    Video(NoId, UniqueId(t, r), record.timestamp, record.title)

\* request.onsuccess of the cursor (lines 253-304) and request.onerror
\* (306-309): one record is taken, or the end is reached.
GetAllVideosCursor ==
    /\ listCall.at = "cursor"
    /\ \/ /\ listCall.rest = << >>
          /\ history' = Filed([listCall EXCEPT !.promise = "resolved"])
          /\ listCall' = NoCall
          /\ activeTx' = "none"
          /\ UNCHANGED timers
       \/ /\ listCall.rest # << >>
          /\ LET record == Head(listCall.rest) IN
             IF IsOldFormat(record)
             THEN \E r \in RandomSuffixes :
                    LET new == NewFormatRecord(record, now, r) IN
                    /\ listCall' = [listCall EXCEPT
                          !.rest = Tail(@),
                          !.result = Append(@, Entry(new)),
                          !.cursorKey = NumberKey(record.timestamp),
                          !.oldRead = @ \cup {record.key},
                          !.assigned = Append(@, new.uniqueId)]
                    /\ timers' = Append(timers, [n |-> listCall.n, rec |-> new])
             ELSE /\ listCall' = [listCall EXCEPT
                          !.rest = Tail(@),
                          !.result = Append(@, Entry(record)),
                          !.cursorKey = NumberKey(record.timestamp)]
                  /\ UNCHANGED timers
          /\ UNCHANGED << history, activeTx >>
       \/ /\ history' = Filed([listCall EXCEPT !.promise = "rejected"])
          /\ listCall' = NoCall
          /\ activeTx' = "none"
          /\ UNCHANGED timers
    /\ UNCHANGED << now, legacyDb, store, keyPath, keyGenerator, putCall,
                    deleteCall, updates, dbState, composerVars, exportVars, policyVars, socketVars >>

\* The setTimeout callback of getAllVideos (lines 273-290) runs: it creates
\* the update transaction and calls updateStore.delete(cursor.key).  The
\* cursor is the one of the timestamp index, so its key is the timestamp of
\* the record it stands at; once the cursor has reached the end the key is
\* undefined, delete throws a DataError and the catch logs it.  The
\* callbacks run in the order they were scheduled (equal delays).
MigrationTimeout ==
    /\ timers # << >>
    /\ LET t == Head(timers) IN
        /\ timers' = Tail(timers)
        /\ IF listCall # NoCall /\ listCall.n = t.n /\ listCall.at = "cursor"
           THEN updates' = Append(updates, [key |-> listCall.cursorKey, rec |-> t.rec])
           ELSE UNCHANGED updates
    /\ UNCHANGED << now, legacyDb, store, keyPath, keyGenerator, activeTx,
                    putCall, listCall, deleteCall, history, dbState,
                    composerVars, exportVars, policyVars, socketVars >>

\* The update transaction runs: the delete request, and in its onsuccess
\* updateStore.add(newFormatRecord) (lines 280-286).  A failing add aborts
\* the transaction.  The transactions run in the order they were created.
MigrationUpdate ==
    /\ activeTx = "none"
    /\ updates # << >>
    /\ LET u == Head(updates) IN
        /\ updates' = Tail(updates)
        /\ LET deleted == Delete(u.key, store) IN
           IF CanAdd(u.rec, deleted)
           THEN /\ store' = Add(u.rec, deleted)
                /\ keyGenerator' = IF keyPath = "id" THEN keyGenerator + 1
                                   ELSE keyGenerator
           ELSE UNCHANGED << store, keyGenerator >>
    /\ UNCHANGED << now, legacyDb, keyPath, activeTx, putCall, listCall,
                    deleteCall, timers, history, dbState, composerVars,
                    exportVars, policyVars, socketVars >>

\* The uniqueIds the page has been given: by storeVideoData and in the
\* arrays of getAllVideos.
KnownIds ==
    UNION { IF history[i].op = "put" /\ history[i].promise = "resolved"
            THEN {history[i].id}
            ELSE IF history[i].op = "list"
            THEN { history[i].result[k].uniqueId : k \in 1..Len(history[i].result) }
            ELSE {}
          : i \in 1..Len(history) }

\* The page calls deleteVideo(uniqueId).
DeleteVideoCall ==
    /\ InFlight = {}
    /\ CallsMade < MaxCalls
    /\ \E id \in KnownIds :
        deleteCall' = [Call("delete", CallsMade + 1, "initDB") EXCEPT !.id = id]
    /\ UNCHANGED << now, legacyDb, store, keyPath, keyGenerator, activeTx,
                    putCall, listCall, timers, updates, history, dbState,
                    composerVars, exportVars, policyVars, socketVars >>

\* deleteVideo: await this.initDB() (line 324); the catch rethrows.
DeleteVideoOpen ==
    /\ deleteCall.at = "initDB"
    /\ \E o \in initDB(dbState) :
        /\ dbState' = o.db
        /\ IF o.db = "failed"
           THEN /\ history' = Filed([deleteCall EXCEPT !.promise = "rejected"])
                /\ deleteCall' = NoCall
           ELSE /\ deleteCall' = [deleteCall EXCEPT !.at = "delete", !.opened = TRUE]
                /\ UNCHANGED history
    /\ UNCHANGED << now, legacyDb, store, keyPath, keyGenerator, activeTx,
                    putCall, listCall, timers, updates, composerVars,
                    exportVars, policyVars, socketVars >>

\* The promise resolved in request.onsuccess.
DeleteSucceededResolves(c) == [c EXCEPT !.at = "transaction", !.promise = "resolved"]

\* request.onsuccess of deleteVideo (lines 332-335): only logs.
DeleteSucceeded(c) == [c EXCEPT !.at = "transaction"]

\* resolve() and reject(...) of deleteVideo's promise: a settled promise
\* keeps its state.
DeleteSettled(c, state, tx) ==
    [c EXCEPT !.promise = IF @ = "pending" THEN state ELSE @, !.tx = tx]

\* const request = store.delete(id) (lines 325-340): the request succeeds,
\* or it errors (request.onerror rejects, the error event reaches
\* transaction.onerror, the transaction aborts).
DeleteVideoRequest ==
    /\ deleteCall.at = "delete"
    /\ activeTx = "none" /\ updates = << >>
    /\ \/ /\ deleteCall' = DeleteSucceeded(deleteCall)
          /\ activeTx' = "delete"
          /\ UNCHANGED history
       \/ /\ history' = Filed(DeleteSettled(deleteCall, "rejected", "error"))
          /\ deleteCall' = NoCall
          /\ UNCHANGED activeTx
    /\ UNCHANGED << now, legacyDb, store, keyPath, keyGenerator, putCall,
                    listCall, timers, updates, dbState, composerVars,
                    exportVars, policyVars, socketVars >>

\* The transaction of deleteVideo ends (lines 343-356): it commits
\* (oncomplete resolves) or aborts (onabort rejects, nothing is deleted).
DeleteVideoTransaction ==
    /\ deleteCall.at = "transaction"
    /\ \/ /\ store' = Delete(deleteCall.id, store)
          /\ history' = Filed(DeleteSettled(deleteCall, "resolved", "complete"))
       \/ /\ history' = Filed(DeleteSettled(deleteCall, "rejected", "abort"))
          /\ UNCHANGED store
    /\ deleteCall' = NoCall
    /\ activeTx' = "none"
    /\ UNCHANGED << now, legacyDb, keyPath, keyGenerator, putCall, listCall,
                    timers, updates, dbState, composerVars, exportVars,
                    policyVars, socketVars >>

\* A millisecond passes.
Tick ==
    /\ now < StartTime + MaxTicks
    /\ now' = now + 1
    /\ UNCHANGED << legacyDb, store, keyPath, keyGenerator, activeTx, putCall,
                    listCall, deleteCall, timers, updates, history, dbState,
                    composerVars, exportVars, policyVars, socketVars >>

\* The page is loaded.  The records of the earlier revision are in the
\* database it used ('script2video-db'), while initDB opens
\* 'script2video-db-v2' and creates its video store with keyPath 'uniqueId';
\* or the database initDB opens exists with the video store of the earlier
\* revision, which onupgradeneeded then leaves as it is.
InitHistory ==
    /\ WalkIdle
    /\ ExportIdle
    /\ PolicyIdle
    /\ SocketIdle
    /\ now = StartTime
    /\ activeTx = "none"
    /\ putCall = NoCall /\ listCall = NoCall /\ deleteCall = NoCall
    /\ timers = << >> /\ updates = << >> /\ history = << >>
    /\ \E legacy \in LegacyStores :
        \/ /\ legacyDb = legacy /\ store = {}
           /\ keyPath = "uniqueId" /\ keyGenerator = 0
        \/ /\ legacy # {}
           /\ legacyDb = {} /\ store = legacy
           /\ keyPath = "id" /\ keyGenerator = Cardinality(legacy)

NextHistory ==
    \/ StoreVideoDataCall
    \/ StoreVideoDataOpen
    \/ StoreVideoDataAdd
    \/ StoreVideoDataTransaction
    \/ GetAllVideosCall
    \/ GetAllVideosOpen
    \/ GetAllVideosOpenCursor
    \/ GetAllVideosCursor
    \/ MigrationTimeout
    \/ MigrationUpdate
    \/ DeleteVideoCall
    \/ DeleteVideoOpen
    \/ DeleteVideoRequest
    \/ DeleteVideoTransaction
    \/ Tick

SpecHistory == InitHistory /\ [][NextHistory]_vars

\* ------------------------------------------- format policy, time model, proxy
\* isSupportedVideoFormat, isSupportedAudioFormat, msToFrames/framesToMs and
\* the GET handler of the proxy route (/api/proxy) are functions of their
\* arguments; each action below is one call of one of them, and a run makes
\* one call (or framesToMs followed by msToFrames on its result).

\* Largest frame index converted.
MaxFrame == 120

\* The URL strings classified: absolute and relative, extensions in both
\* cases, a path without extension, and query strings with and without an
\* audio content type or an audio file name in them.
ProbeOrigins == {Origin, ""}
ProbeExts == {".mp4", ".MP4", ".webm", ".mov", ".mp3", ".MP3", ".wav", ".jpg", ""}
ProbeQueries ==
    {"", "?token=abc", "?file=a.mp3", "?content-type=audio/wav",
     "?response-content-type=audio/mpeg"}
ProbeUrls ==
    { Url(o, "/m", e, q) : o \in ProbeOrigins, e \in ProbeExts, q \in ProbeQueries }

\* searchParams.get('type') || '' and the upstream response: response.ok and
\* response.headers.get('content-type') || ''.
Hints == {"", "audio", "video", "image"}
DeclaredTypes == {"", "application/octet-stream", "video/webm", "audio/ogg"}
Upstreams == { [ok |-> ok, contentType |-> ct] : ok \in BOOLEAN, ct \in DeclaredTypes }

\* The if / else-if chain of the route over lowerUrl and the type hint.
InferContentType(url, type) ==
    IF type = "audio" \/ EndsWith(url, ".mp3") THEN "audio/mpeg"
    ELSE IF EndsWith(url, ".wav") THEN "audio/wav"
    ELSE IF EndsWith(url, ".m4a") THEN "audio/mp4"
    ELSE IF EndsWith(url, ".ogg") THEN "audio/ogg"
    ELSE IF type = "video" \/ EndsWith(url, ".mp4") THEN "video/mp4"
    ELSE IF EndsWith(url, ".webm") THEN "video/webm"
    ELSE IF EndsWith(url, ".mov") THEN "video/quicktime"
    ELSE IF type = "image" \/ EndsWith(url, ".jpg") \/ EndsWith(url, ".jpeg")
    THEN "image/jpeg"
    ELSE IF EndsWith(url, ".png") THEN "image/png"
    ELSE IF EndsWith(url, ".gif") THEN "image/gif"
    ELSE IF EndsWith(url, ".webp") THEN "image/webp"
    ELSE "application/octet-stream"

\* if (!contentType || contentType === 'application/octet-stream' || type)
ContentType(url, type, originalContentType) ==
    IF originalContentType = "" \/ originalContentType = "application/octet-stream"
       \/ type # ""
    THEN InferContentType(url, type)
    ELSE originalContentType

\* GET: 400 without a url parameter, 500 when the fetch throws (a string that
\* is no absolute URL) or the upstream response is not ok, else 200 with the
\* content type chosen above.
ProxyStatus(url, upstream) ==
    IF url = NoUrl THEN 400
    ELSE IF ~UrlParses(url) \/ ~upstream.ok THEN 500
    ELSE 200

ProxyResponse(url, type, upstream) ==
    [status |-> ProxyStatus(url, upstream),
     contentType |-> IF ProxyStatus(url, upstream) = 200
                     THEN ContentType(url, type, upstream.contentType)
                     ELSE "application/json"]

IsSupportedVideoFormatCall ==
    /\ answer = NoAnswer
    /\ \E url \in ProbeUrls :
        answer' = [fn |-> "isSupportedVideoFormat", url |-> url,
                   value |-> isSupportedVideoFormat(url)]
    /\ UNCHANGED << walkVars, exportVars, historyVars, socketVars >>

IsSupportedAudioFormatCall ==
    /\ answer = NoAnswer
    /\ \E url \in ProbeUrls :
        answer' = [fn |-> "isSupportedAudioFormat", url |-> url,
                   value |-> isSupportedAudioFormat(url)]
    /\ UNCHANGED << walkVars, exportVars, historyVars, socketVars >>

FramesToMsCall ==
    /\ answer = NoAnswer
    /\ \E frames \in 0..MaxFrame :
        answer' = [fn |-> "framesToMs", frames |-> frames, ms |-> framesToMs(frames)]
    /\ UNCHANGED << walkVars, exportVars, historyVars, socketVars >>

\* msToFrames applied to the milliseconds framesToMs returned.
MsToFramesCall ==
    /\ answer.fn = "framesToMs"
    /\ answer' = [fn |-> "msToFrames", of |-> answer.frames, ms |-> answer.ms,
                  frames |-> msToFrames(answer.ms)]
    /\ UNCHANGED << walkVars, exportVars, historyVars, socketVars >>

GET ==
    /\ answer = NoAnswer
    /\ \E url \in ProbeUrls \cup {NoUrl}, type \in Hints, upstream \in Upstreams :
        answer' = [fn |-> "GET", url |-> url, type |-> type, upstream |-> upstream,
                   response |-> ProxyResponse(url, type, upstream)]
    /\ UNCHANGED << walkVars, exportVars, historyVars, socketVars >>

InitPolicy ==
    /\ WalkIdle
    /\ ExportIdle
    /\ HistoryIdle
    /\ PolicyIdle
    /\ SocketIdle

NextPolicy ==
    \/ IsSupportedVideoFormatCall
    \/ IsSupportedAudioFormatCall
    \/ FramesToMsCall
    \/ MsToFramesCall
    \/ GET

SpecPolicy == InitPolicy /\ [][NextPolicy]_vars

\* --------------------------------------------------------- WebSocketService
\* Number of WebSocket objects made in one run, and of connect / disconnect
\* calls the application makes.
MaxSockets == 6
MaxUserCalls == 2

\* private maxReconnectAttempts = 5
maxReconnectAttempts == 5

\* The job ids connect is called with.
Jobs == {1, 2}

\* A WebSocket object: the job of its URL, its readyState, and what made it:
\* a call of the application ("user"), a reconnect after the closure of
\* the socket that was current ("reconnect"), or a reconnect scheduled by
\* the close event of a socket that was no longer the current one ("stale").
WebSocket(job, why) == [job |-> job, state |-> "connecting", why |-> why]

\* socket.close(): an open socket starts the closing handshake, a connecting
\* one has its connection failed; the close event is delivered later.
Close(ss, id) ==
    IF id # 0 /\ ss[id].state \in {"connecting", "open"}
    THEN [ss EXCEPT ![id].state = IF @ = "open" THEN "closing" ELSE "failing"]
    ELSE ss

\* clearTimeout(handle)
ClearTimeout(ts, handle) == { t \in ts : t.id # handle }

\* The fields of the service.
Service ==
    [socket |-> socket, jobId |-> jobId, reconnectAttempts |-> reconnectAttempts,
     reconnectTimeout |-> reconnectTimeout]

\* A disconnect that leaves this.jobId as it is.
DisconnectedKeepsJob(svc) ==
    [socket |-> 0, jobId |-> svc.jobId, reconnectAttempts |-> 0,
     reconnectTimeout |-> 0]

\* disconnect() (lines 468-481): the fields after it.
Disconnected(svc) ==
    [socket |-> 0, jobId |-> 0, reconnectAttempts |-> 0, reconnectTimeout |-> 0]

\* The close codes a close event can carry: 1006 for a connection that
\* failed, was lost or was closed before it was established, 1000 for a
\* closure by the server, and for an open socket the client closed with
\* close() either 1005 (the server echoes the close frame, which has no
\* status) or 1000.
CloseCodes(state) ==
    CASE state \in {"connecting", "failing"} -> {1006}
      [] state = "open" -> {1000, 1006}
      [] state = "closing" -> {1000, 1005}
      [] OTHER -> {}

\* event.code !== 1000 && event.code !== 1001
Abnormal(code) == code # 1000 /\ code # 1001

\* connect(jobId) (lines 416-463): disconnect() when this.socket is set, then
\* the new socket.  ts are the pending timeouts when connect is called.
DoConnect(job, why, ts) ==
    LET svc == IF socket # 0 THEN Disconnected(Service) ELSE Service IN
    /\ sockets' = Append(Close(sockets, socket), WebSocket(job, why))
    /\ pendingTimeouts' = IF socket # 0 THEN ClearTimeout(ts, reconnectTimeout) ELSE ts
    /\ socket' = Len(sockets) + 1
    /\ jobId' = job
    /\ reconnectAttempts' = svc.reconnectAttempts
    /\ reconnectTimeout' = svc.reconnectTimeout

\* The application calls connect(jobId).
Connect ==
    /\ userCalls < MaxUserCalls
    /\ Len(sockets) < MaxSockets
    /\ \E job \in Jobs : DoConnect(job, "user", pendingTimeouts)
    /\ userCalls' = userCalls + 1
    /\ disconnected' = FALSE
    /\ closures' = 0
    /\ UNCHANGED timeoutsSet
    /\ UNCHANGED << walkVars, exportVars, historyVars, policyVars >>

\* The application calls disconnect().
Disconnect ==
    /\ userCalls < MaxUserCalls
    /\ LET svc == Disconnected(Service) IN
        /\ sockets' = Close(sockets, socket)
        /\ pendingTimeouts' = ClearTimeout(pendingTimeouts, reconnectTimeout)
        /\ socket' = svc.socket
        /\ jobId' = svc.jobId
        /\ reconnectAttempts' = svc.reconnectAttempts
        /\ reconnectTimeout' = svc.reconnectTimeout
    /\ userCalls' = userCalls + 1
    /\ disconnected' = TRUE
    /\ closures' = 0
    /\ UNCHANGED timeoutsSet
    /\ UNCHANGED << walkVars, exportVars, historyVars, policyVars >>

\* socket.onopen (lines 428-432): this.reconnectAttempts = 0.
SocketOpen ==
    /\ \E id \in 1..Len(sockets) :
        /\ sockets[id].state = "connecting"
        /\ sockets' = [sockets EXCEPT ![id].state = "open"]
    /\ reconnectAttempts' = 0
    /\ closures' = 0
    /\ UNCHANGED << socket, jobId, reconnectTimeout, pendingTimeouts, timeoutsSet,
                    userCalls, disconnected >>
    /\ UNCHANGED << walkVars, exportVars, historyVars, policyVars >>

\* socket.onclose (lines 450-458) and attemptReconnect (510-526): for a code
\* other than 1000 and 1001 and a counter below the maximum, the counter is
\* incremented and a timeout is set, whose handle replaces the one kept.
SocketClose ==
    /\ \E id \in 1..Len(sockets) : \E code \in CloseCodes(sockets[id].state) :
        /\ sockets' = [sockets EXCEPT ![id].state = "closed"]
        /\ closures' = IF Abnormal(code) /\ id = socket THEN closures + 1 ELSE closures
        /\ IF Abnormal(code) /\ reconnectAttempts < maxReconnectAttempts
           THEN /\ reconnectAttempts' = reconnectAttempts + 1
                /\ timeoutsSet' = timeoutsSet + 1
                /\ reconnectTimeout' = timeoutsSet + 1
                /\ pendingTimeouts' = pendingTimeouts \cup
                      {[id |-> timeoutsSet + 1, stale |-> socket # 0 /\ socket # id]}
           ELSE UNCHANGED << reconnectAttempts, timeoutsSet, reconnectTimeout,
                             pendingTimeouts >>
    /\ UNCHANGED << socket, jobId, userCalls, disconnected >>
    /\ UNCHANGED << walkVars, exportVars, historyVars, policyVars >>

\* The timeout callback of attemptReconnect (lines 521-525):
\* if (this.jobId) this.connect(this.jobId).
ReconnectTimeout ==
    /\ \E t \in pendingTimeouts :
        IF jobId # 0
        THEN /\ Len(sockets) < MaxSockets
             /\ DoConnect(jobId, IF t.stale THEN "stale" ELSE "reconnect",
                          pendingTimeouts \ {t})
        ELSE /\ pendingTimeouts' = pendingTimeouts \ {t}
             /\ UNCHANGED << socket, jobId, reconnectAttempts, reconnectTimeout,
                             sockets >>
    /\ UNCHANGED << timeoutsSet, userCalls, disconnected, closures >>
    /\ UNCHANGED << walkVars, exportVars, historyVars, policyVars >>

InitSocket ==
    /\ WalkIdle
    /\ ExportIdle
    /\ HistoryIdle
    /\ PolicyIdle
    /\ SocketIdle

NextSocket ==
    \/ Connect
    \/ Disconnect
    \/ SocketOpen
    \/ SocketClose
    \/ ReconnectTimeout

SpecSocket == InitSocket /\ [][NextSocket]_vars

\* ------------------------------------------------------------ vocabulary
Sections == 1..Len(videoData.data)
PointIds ==
    UNION { { << s, p >> : p \in 1..Len(videoData.data[s].points) } : s \in Sections }
PointAt(s, p) == videoData.data[s].points[p]
CallIdx == 1..Len(calls)

\* The fetchMediaWithCache calls in progress or just finished.
FetchCalls == {fetchCtx} \cup { t.f : t \in bg }

\* A finished resolution of the given kind for point p of section s (p = 0:
\* the section's audio).
Has(s, p, type, ok) == [sec |-> s, pt |-> p, type |-> type, ok |-> ok] \in outcome

\* The calls of a kind issued for an asset, and those the engine accepted.
Issued(kind, s, p) ==
    { i \in CallIdx : calls[i].kind = kind /\ calls[i].sec = s /\ calls[i].pt = p }
Inserted(kind, s, p) == { i \in Issued(kind, s, p) : calls[i].ok }

\* The walk has left point p of section s behind.
Past(s, p) == pc = "resolved" \/ si > s \/ (si = s /\ pi > p)

\* addVideoPoint was called for every point from section s on.
VisitedFrom(s) == \A id \in PointIds : id[1] >= s => id \in visited

\* The input passes the validation of processVideoData.
ValidInput ==
    videoData.success /\ videoData.hasData /\ Len(videoData.data) > 0

\* Any step of the walk itself (not of a background addPlaceholder).
WalkStep ==
    \/ Validate \/ StoreVideoData \/ ProcessSection \/ WalkFetch
    \/ AudioFetchFailed \/ AudioSource \/ AudioAdd \/ AddVideoPoint
    \/ VideoFetchFailed \/ VideoSource \/ VideoAdd \/ PlaceholderDone

\* ------------------------------------------------------------------ claims

\* C1: the composition.add calls are issued in section order and, within a
\* section, audio first and then the points in array order: no call for a
\* later asset precedes a call for an earlier one.
C1_InsertionOrder ==
    \A i, j \in CallIdx :
        i < j => \/ calls[i].sec < calls[j].sec
                 \/ calls[i].sec = calls[j].sec /\ calls[i].pt <= calls[j].pt

\* C2 (as stated): a fetchMediaWithCache call made after a resolution of the
\* same URL succeeded returns the bytes of that first resolution from the
\* cache, without a network request.
C2_LaterCallReturnsCached ==
    \A f \in FetchCalls :
        f.late => /\ f.phase \in {"getMedia", "ok"}
                  /\ f.phase = "ok" => f.buf = firstBytes[f.url]

\* C2 (amended): a call made after a resolution of the same URL succeeded
\* never goes to the network and never writes the cache; when it returns it
\* returns the bytes of the first resolution, which are the cached ones; it
\* throws only when the cache read request itself errors.
C2_LaterCallNeverFetches ==
    \A f \in FetchCalls :
        f.late => /\ f.phase \in {"getMedia", "ok", "err"}
                  /\ f.phase = "ok" => /\ f.buf = firstBytes[f.url]
                                       /\ f.url \in DOMAIN cache
                                       /\ f.buf = cache[f.url].data
                  /\ f.phase = "err" => f.error = "Failed to retrieve media"

\* A later call that was served from the cache.
C2_Witness == \E f \in FetchCalls : f.late /\ f.phase = "ok"

\* C3: a step in which the network request of a call fails ends the call
\* with an error and leaves the media store as it was; every record of the
\* store holds the complete bytes of its URL.
NetworkFailure(f, g) == f.phase = "fetch" /\ g # f /\ faults' = faults + 1
C3_FailedFetchWritesNothing ==
    /\ [](\A u \in DOMAIN cache : cache[u].url = u /\ cache[u].data = Content(u))
    /\ [][ /\ NetworkFailure(fetchCtx, fetchCtx') =>
                fetchCtx'.phase = "err" /\ cache' = cache
           /\ \A t \in bg : \A u \in bg' :
                (u.sec = t.sec /\ u.pt = t.pt /\ NetworkFailure(t.f, u.f)) =>
                    u.f.phase = "err" /\ cache' = cache ]_vars

\* A call that threw on a failed network request, with no record of the URL.
C3_Witness ==
    \E f \in FetchCalls :
        /\ f.phase = "err" /\ f.error = "Failed to fetch"
        /\ fetched[f.url] > 0 /\ f.url \notin DOMAIN cache

\* C4: for a valid input processVideoData never rejects, whatever fails
\* while an asset is resolved or added, and until it has resolved the walk
\* always has a next step (unless the history write never settles).
C4_AssetFailuresAbsorbed ==
    ValidInput => /\ pc # "rejected"
                  /\ pc \notin {"resolved", "unsettled"} => ENABLED WalkStep

\* A composition that resolved although a resolution failed and the engine
\* rejected a clip.
C4_Witness ==
    /\ pc = "resolved"
    /\ \E o \in outcome : ~o.ok
    /\ \E i \in CallIdx : ~calls[i].ok

\* C5: for an input with success = false or without sections
\* processVideoData rejects in its first step: no composition.add call, no
\* media request, no read or write of either store has happened.
C5_InvalidRejectedAtOnce ==
    ~ValidInput => /\ pc \in {"processVideoData", "rejected"}
                   /\ calls = << >> /\ bg = {} /\ fetchCtx = NoFetch
                   /\ \A u \in AllUrls : fetched[u] = 0
                   /\ videoStore = {} /\ dbState = "none" /\ cache = << >>

\* A rejected call that was given a title.
C5_Witness == pc = "rejected" /\ hasTitle /\ ~videoData.success /\ Len(videoData.data) > 0

\* C6: a point whose video is unsupported or could not be resolved, and whose
\* thumbnail was resolved, has exactly one image call, at the frame of its
\* start time and as long as the difference of its end and start frames,
\* and no video call; once everything has finished the thumbnail of every
\* such point has been tried.
NeedsPlaceholder(s, p) ==
    ~isSupportedVideoFormat(PointAt(s, p).videoUrl) \/ Has(s, p, "video", FALSE)
C7_VideoClipFrames ==
    \A i \in CallIdx :
        (calls[i].kind = "video" /\ calls[i].ok) =>
            LET point == PointAt(calls[i].sec, calls[i].pt) IN
            /\ calls[i].frame = msToFrames(point.startTime)
            /\ calls[i].dur = msToFrames(point.endTime) - msToFrames(point.startTime)

\* Section s has an audioUrl, and processSection is done with its audio.
HasAudio(s) == videoData.data[s].audioUrl # NoUrl
AudioSettled(s) ==
    /\ pc \notin {"processVideoData", "storeVideoData", "rejected", "unsettled"}
    /\ s < si \/ (s = si /\ pc \notin {"processSection", "audioFetch", "audioAdd"})

\* The audio of section s was not resolved: unsupported format, or the
\* resolution failed.
AudioUnresolved(s) ==
    ~isSupportedAudioFormat(videoData.data[s].audioUrl) \/ Has(s, 0, "audio", FALSE)

\* The engine built the audio source of section s and accepted its clip.
AudioEngineOk(s) ==
    ~Has(s, 0, "source", FALSE) /\ \A i \in Issued("audio", s, 0) : calls[i].ok

\* Every audio call of section s is at the frame of its first point's start.
AudioAtSectionStart(s) ==
    Len(videoData.data[s].points) > 0 =>
        \A i \in Issued("audio", s, 0) :
            calls[i].frame = msToFrames(videoData.data[s].points[1].startTime)

\* C8 (as stated): a section whose audio is unsupported or unresolved gets
\* no audio clip and its points and the later sections are still
\* processed; a section whose audio is resolved gets exactly one audio
\* clip, at the frame of its first point's start time.
C8_AudioResolvedInsertsOne ==
    \A s \in Sections :
        (HasAudio(s) /\ AudioSettled(s)) =>
            /\ AudioUnresolved(s) =>
                /\ Issued("audio", s, 0) = {}
                /\ pc = "resolved" => VisitedFrom(s)
            /\ Has(s, 0, "audio", TRUE) =>
                /\ Cardinality(Inserted("audio", s, 0)) = 1
                /\ AudioAtSectionStart(s)

\* C8 (amended): as stated, except that a resolved audio gets its one clip
\* only when the engine builds the source and accepts the clip; when the
\* engine fails no audio clip is inserted and the walk goes on as well.
C8_AudioInsertedOrSkipped ==
    \A s \in Sections :
        (HasAudio(s) /\ AudioSettled(s)) =>
            /\ AudioUnresolved(s) =>
                /\ Issued("audio", s, 0) = {}
                /\ pc = "resolved" => VisitedFrom(s)
            /\ Has(s, 0, "audio", TRUE) =>
                /\ Cardinality(Issued("audio", s, 0)) <= 1
                /\ AudioAtSectionStart(s)
                /\ AudioEngineOk(s) => Cardinality(Inserted("audio", s, 0)) = 1
                /\ ~AudioEngineOk(s) =>
                    /\ Inserted("audio", s, 0) = {}
                    /\ pc = "resolved" => VisitedFrom(s)

\* A finished composition with a section whose audio was skipped, a later
\* section whose audio was inserted away from frame 0, and every point
\* visited.
C8_Witness ==
    /\ pc = "resolved"
    /\ \E s, t \in Sections :
        /\ s < t
        /\ HasAudio(s) /\ AudioUnresolved(s)
        /\ \E i \in Inserted("audio", t, 0) : calls[i].frame > 0
    /\ VisitedFrom(1)

\* The end time of the section before s: the endTime of the last point of
\* the nearest earlier section that has points, 0 when there is none.
RECURSIVE PreviousEnd(_)
PreviousEnd(s) ==
    IF s = 1 THEN 0
    ELSE LET points == videoData.data[s - 1].points IN
         IF Len(points) > 0 THEN points[Len(points)].endTime ELSE PreviousEnd(s - 1)

\* C9: the audio clip of a section without points is placed at the frame of
\* the previous section's end time.
C9_EmptySectionAudioAtPreviousEnd ==
    \A s \in Sections :
        Len(videoData.data[s].points) = 0 =>
            \A i \in Inserted("audio", s, 0) :
                calls[i].frame = msToFrames(PreviousEnd(s))

\* C10: a point whose thumbnail could not be resolved has no image call and
\* no inserted clip at all; processVideoData has not rejected, the walk has
\* left the point behind, and a finished walk has visited every later point.
C10_ThumbnailFailureSkipsPoint ==
    \A id \in PointIds :
        LET s == id[1]  p == id[2] IN
        Has(s, p, "image", FALSE) =>
            /\ Issued("image", s, p) = {}
            /\ Inserted("video", s, p) = {}
            /\ pc # "rejected"
            /\ Past(s, p)
            /\ pc = "resolved" => VisitedFrom(s)

\* A finished composition in which a point lost its thumbnail and a later
\* point was inserted.
C10_Witness ==
    /\ pc = "resolved"
    /\ \E id \in PointIds :
        /\ Has(id[1], id[2], "image", FALSE)
        /\ \E i \in CallIdx :
            /\ calls[i].ok
            /\ calls[i].sec > id[1] \/ (calls[i].sec = id[1] /\ calls[i].pt > id[2])

\* The renderToFile calls made so far, settled or not.
ExportCalls == { exports[i] : i \in 1..Len(exports) } \cup ({exportCall} \ {NoExport})
AttemptsOf(c, strategy) ==
    { i \in 1..Len(c.attempts) : c.attempts[i].strategy = strategy }
FailedAttempts(c, strategy) ==
    { i \in AttemptsOf(c, strategy) : c.attempts[i].error # "" }

\* C11: in every renderToFile call a failed strategy-1 step (picker or render
\* to the file handle) is the last step of strategy 1 and is followed by one
\* and only one render to the filename; the call rejects only when that
\* render failed, with one error that wraps that render's error.
C11_Strategy1FailureFallsBack ==
    \A c \in ExportCalls :
        /\ Cardinality(AttemptsOf(c, 2)) <= 1
        /\ \A i \in FailedAttempts(c, 1) :
            /\ \A j \in AttemptsOf(c, 1) : j <= i
            /\ IF c.at = "settled"
               THEN AttemptsOf(c, 2) = {i + 1} /\ Len(c.attempts) = i + 1
               ELSE c.at = "render" /\ AttemptsOf(c, 2) = {}
        /\ (c.at = "settled" /\ c.result[1] = "rejected") =>
            /\ FailedAttempts(c, 2) = {Len(c.attempts)}
            /\ c.result = << "rejected", "Failed to render video: ",
                             c.attempts[Len(c.attempts)].error >>
        /\ (c.at = "settled" /\ FailedAttempts(c, 2) = {}) => c.result[1] = "resolved"

\* A call whose picker was cancelled and whose download succeeded, and a call
\* whose render to the file handle and whose download both failed.
C11_Witness ==
    /\ \E c \in ExportCalls :
        /\ c.at = "settled" /\ c.result[1] = "resolved"
        /\ \E i \in FailedAttempts(c, 1) : c.attempts[i].error = "AbortError"
    /\ \E c \in ExportCalls :
        /\ c.at = "settled" /\ c.result[1] = "rejected"
        /\ \E i \in FailedAttempts(c, 1) : c.attempts[i].call = "render"

\* C12: without showSaveFilePicker no renderToFile call makes a strategy-1
\* step; its first step is the render to the filename, and the call resolves
\* (with the download message) exactly when that render succeeds.
C12_NoPickerGoesToDownload ==
    ~savePicker =>
        \A c \in ExportCalls :
            /\ AttemptsOf(c, 1) = {}
            /\ c.at \in {"render", "settled"}
            /\ c.at = "settled" =>
                /\ Len(c.attempts) = 1
                /\ c.attempts[1].error = "" <=>
                     c.result = << "resolved", << "Video downloaded as ", c.filename >> >>

\* Without the picker, a call that resolved.
C12_Witness ==
    /\ ~savePicker
    /\ \E c \in ExportCalls : c.at = "settled" /\ c.result[1] = "resolved"

\* C15: a fetchMediaWithCache call whose network request succeeded returns
\* the fetched bytes even when writing them to the media store fails or the
\* store cannot be opened: it never ends with an error once it holds the
\* bytes.
C15_CacheWriteFailureTolerated ==
    \A f \in FetchCalls : f.buf # NoBytes => f.phase # "err"

\* ---------------------------------------------------- video history claims
\* The StorageService calls made so far, and those that have ended.
HistoryCalls == { history[i] : i \in 1..Len(history) } \cup InFlight
Ended(op) == { i \in 1..Len(history) : history[i].op = op }
Lists ==
    { c \in HistoryCalls : c.op = "list" /\ c.opened /\ c.promise # "rejected" }

\* C13: whenever the promise of a storeVideoData call is resolved, the record
\* with the id it resolved with has been committed to the video store (it
\* is in the store, unless a later deleteVideo of that id has resolved).
C13_ResolvedOnlyAfterCommit ==
    \A c \in HistoryCalls :
        (c.op = "put" /\ c.promise = "resolved") =>
            \/ \E r \in store : r.uniqueId = c.id /\ r.title = c.title
            \/ \E i \in Ended("delete") :
                /\ history[i].promise = "resolved"
                /\ history[i].id = c.id /\ history[i].n > c.n

\* A storeVideoData call that resolved, with its record in the store.
C13_Witness ==
    \E i \in Ended("put") :
        /\ history[i].promise = "resolved"
        /\ \E r \in store : r.uniqueId = history[i].id

\* C14: a storeVideoData call whose work has ended (initDB rejected, the add
\* request failed, or the transaction completed or aborted) has settled:
\* its promise is resolved or rejected.
C14_HistoryWriteSettles ==
    \A i \in Ended("put") : history[i].promise # "pending"

\* C16: once the migration a getAllVideos call scheduled has run, the old
\* format records the call read are no longer in the store; and a later
\* getAllVideos call, made when no migration is pending, reads none of them.
C16_LegacyRecordMigrated ==
    /\ (InFlight = {} /\ timers = << >> /\ updates = << >>) =>
        \A c \in Lists : \A r \in store : IsOldFormat(r) => r.key \notin c.oldRead
    /\ \A c, d \in Lists :
        (c.n < d.n /\ d.quiet) => c.oldRead \cap d.oldRead = {}

\* C17: no array getAllVideos builds holds two entries for the same video,
\* and when its cursor has reached the end the array holds an entry for
\* every record of the store.
C17_ListDeduplicated ==
    /\ \A c \in Lists :
        \A k, l \in 1..Len(c.result) :
            k # l => c.result[k].title # c.result[l].title
    /\ (listCall # NoCall /\ listCall.at = "cursor" /\ listCall.rest = << >>) =>
        \A r \in store :
            \E k \in 1..Len(listCall.result) : listCall.result[k].title = r.title

\* C18: every array getAllVideos resolves with holds an entry for each
\* record the earlier revision wrote and that has not been migrated.
C18_LegacyRecordsReadable ==
    \A c \in Lists :
        c.promise = "resolved" =>
            \A old \in legacyDb :
                \E k \in 1..Len(c.result) : c.result[k].title = old.title

\* The ids a call handed out: the id a storeVideoData call resolved with,
\* the ids a getAllVideos call assigned to old format records.
HandedOut(c) ==
    IF c.op = "put" /\ c.promise = "resolved" THEN << c.id >>
    ELSE IF c.op = "list" THEN c.assigned
    ELSE << >>

\* C19: no two ids handed out (by one call or by two) are equal.
C19_IdsNeverReused ==
    \A c, d \in HistoryCalls :
        \A k \in 1..Len(HandedOut(c)) : \A l \in 1..Len(HandedOut(d)) :
            (c.n # d.n \/ k # l) => HandedOut(c)[k] # HandedOut(d)[l]

\* C20: every array getAllVideos builds is in descending order of timestamp.
C20_ListOrderedByTimestamp ==
    \A c \in Lists :
        \A k, l \in 1..Len(c.result) :
            k < l => c.result[k].timestamp >= c.result[l].timestamp

\* An array with a video stored by this revision before an upgraded old
\* format record of an earlier timestamp.
C20_Witness ==
    \E i \in Ended("list") :
        /\ history[i].promise = "resolved"
        /\ history[i].assigned # << >>
        /\ \E k, l \in 1..Len(history[i].result) :
            /\ k < l
            /\ history[i].result[k].timestamp > history[i].result[l].timestamp
            /\ history[i].result[l].uniqueId = history[i].assigned[1]

\* The videoThumbnail of the first point of the first section with points,
\* the empty string when no section has a point.
SectionsWithPoints(vd) == { s \in 1..Len(vd.data) : Len(vd.data[s].points) > 0 }
FirstThumbnail(vd) ==
    IF SectionsWithPoints(vd) = {} THEN NoUrl
    ELSE LET first == CHOOSE s \in SectionsWithPoints(vd) :
                          \A t \in SectionsWithPoints(vd) : s <= t
         IN vd.data[first].points[1].videoThumbnail

\* C21: every record storeVideoData writes carries the thumbnail of the first
\* point of the first section that has points, and the empty string only
\* when no section has a point.
C21_ThumbnailOfFirstSectionWithPoints ==
    \A v \in videoStore : v.thumbnail = FirstThumbnail(v.videoData)

\* C22: isSupportedVideoFormat(url) is true exactly when the path of url,
\* whatever query string follows it, ends with .mp4 or .webm (in either
\* case of the letters, as the code lowercases the string).
C22_VideoFormatByPath ==
    answer.fn = "isSupportedVideoFormat" =>
        (answer.value <=> ToLowerCase(answer.url.ext) \in {".mp4", ".webm"})

\* C23 (as stated): isSupportedAudioFormat(url) returns true exactly when a
\* content-type parameter names an audio type, or the path ends with an
\* audio extension, or an audio extension occurs in the string; for a string
\* that is no URL the result is that of the last test alone.
C23_AudioFormatAsStated ==
    answer.fn = "isSupportedAudioFormat" =>
        LET url == answer.url IN
        answer.value <=>
            IF url.origin = "" THEN IncludesAudioFormat(url)
            ELSE \/ QueryHasAudioContentType(url.query)
                 \/ ToLowerCase(url.ext) \in AudioFormats
                 \/ IncludesAudioFormat(url)

\* C23 (amended): isSupportedAudioFormat(url) returns for every string, and
\* returns true exactly when a content-type parameter names an audio type,
\* or the string is a URL whose path ends with an audio extension, or an
\* audio extension occurs in the string; for a string that is no URL the
\* result is that of the first and the last test.
C23_AudioFormatHintFirst ==
    answer.fn = "isSupportedAudioFormat" =>
        LET url == answer.url IN
        /\ answer.value \in BOOLEAN
        /\ answer.value <=>
            \/ QueryHasAudioContentType(url.query)
            \/ url.origin # "" /\ ToLowerCase(url.ext) \in AudioFormats
            \/ IncludesAudioFormat(url)

\* A string new URL rejects, with an audio content type in its query and no
\* audio extension anywhere, classified as supported.
C23_Witness ==
    /\ answer.fn = "isSupportedAudioFormat"
    /\ answer.url.origin = ""
    /\ QueryHasAudioContentType(answer.url.query)
    /\ ~IncludesAudioFormat(answer.url)
    /\ answer.value

\* C24: converting a frame index to milliseconds and back gives the frame
\* index again, for every index from 0 to MaxFrame at 30 frames a second.
C24_FrameRoundTrip ==
    answer.fn = "msToFrames" => answer.frames = answer.of

\* Frame 1 went to 33 ms (33.33 rounded) and came back as frame 1.
C24_Witness ==
    answer.fn = "msToFrames" /\ answer.of = 1 /\ answer.ms = 33 /\ answer.frames = 1

\* C25: calls of fetchMediaWithCache that run at the same time, for the same
\* URL or not, do not make each other fail (without a failed operation no
\* call throws), every call that returns returns the bytes of its URL, and
\* every record of the media store is the whole record one call wrote: the
\* URL it is kept under and the bytes of that URL.
C25_ConcurrentResolutionsRaceSafely ==
    /\ faults = 0 => \A f \in FetchCalls : f.phase # "err"
    /\ \A f \in FetchCalls : f.phase = "ok" => f.buf = Content(f.url)
    /\ \A u \in DOMAIN cache :
        cache[u] = [url |-> u, data |-> Content(u), type |-> cache[u].type]

\* Two calls for the same URL both went to the network, both returned, and
\* the store holds the record of the URL.
C25_Witness ==
    \E t1 \in bg, t2 \in bg :
        /\ t1 # t2
        /\ t1.f.url = t2.f.url
        /\ t1.f.phase = "ok" /\ t2.f.phase = "ok"
        /\ fetched[t1.f.url] = 2
        /\ t1.f.url \in DOMAIN cache

ZeroLength(s, p) == PointAt(s, p).endTime = PointAt(s, p).startTime
VisualCalls(s, p) == Issued("video", s, p) \cup Issued("image", s, p)
VisualInsertions(s, p) == Inserted("video", s, p) \cup Inserted("image", s, p)

C28_ProxyKeepsDeclaredType ==
    answer.fn = "GET" /\ answer.response.status = 200 =>
        IF answer.upstream.contentType \notin {"", "application/octet-stream"}
        THEN answer.response.contentType = answer.upstream.contentType
        ELSE answer.response.contentType = InferContentType(answer.url, answer.type)

\* C29: when processVideoData has resolved no addPlaceholder call it started
\* is still running.
C29_ResolvedMeansNothingPending ==
    pc = "resolved" => bg = {}

\* C30: no point has more than one inserted visual clip, video or image.
C30_AtMostOneVisualInsertion ==
    \A id \in PointIds : Cardinality(VisualInsertions(id[1], id[2])) <= 1

\* A point whose video clip the composition refused and whose placeholder
\* was inserted.
C30_Witness ==
    \E id \in PointIds :
        /\ \E i \in Issued("video", id[1], id[2]) : ~calls[i].ok
        /\ Inserted("image", id[1], id[2]) # {}
        /\ Cardinality(VisualInsertions(id[1], id[2])) = 1

\* A deleteVideo call of the id that resolved after call c was made.
DeletedAfter(id, c) ==
    \E i \in Ended("delete") :
        /\ history[i].promise = "resolved"
        /\ history[i].id = id /\ history[i].n > c.n

\* C31: the store never holds two current-shape records of the same video
\* (two upgrades of one old format record), and once the scheduled
\* migrations have run, every id a getAllVideos call reported for an old
\* format record is the uniqueId of a record of the store (unless it was
\* deleted since).
C31_LegacyMigratedOnce ==
    /\ \A r1, r2 \in store :
        (~IsOldFormat(r1) /\ ~IsOldFormat(r2) /\ r1.title = r2.title) => r1 = r2
    /\ (InFlight = {} /\ timers = << >> /\ updates = << >>) =>
        \A c \in Lists :
            c.promise = "resolved" =>
                \A k \in 1..Len(c.assigned) :
                    \/ \E r \in store : r.uniqueId = c.assigned[k]
                    \/ DeletedAfter(c.assigned[k], c)

C33_DeleteResolvesAfterCommit ==
    \A c \in HistoryCalls :
        c.op = "delete" =>
            /\ c.promise = "resolved" => c.tx = "complete"
            /\ c.tx \in {"abort", "error"} => c.promise = "rejected"
            /\ c.at = "done" => c.promise # "pending"

\* A deleteVideo call that resolved after its transaction completed, with
\* the record gone from the store, in a run where the record had been stored.
C33_Witness ==
    \E i \in Ended("delete") :
        /\ history[i].promise = "resolved"
        /\ history[i].tx = "complete"
        /\ \E j \in Ended("put") :
            history[j].promise = "resolved" /\ history[j].id = history[i].id
        /\ \A r \in store : r.uniqueId # history[i].id

\* C34: once the database has been opened, or the open has failed, the
\* state of the open promise never changes again: no operation, of the walk
\* or of a background call, opens the database a second time, and after a
\* failed open nothing is written to the media store.
C34_DatabaseOpenedOnce ==
    [][/\ dbState # "none" => dbState' = dbState
       /\ dbState = "failed" => cache' = cache]_vars

\* The open failed once and two operations after it failed in turn, with no
\* other failure.
C34_Witness ==
    /\ dbState = "failed"
    /\ faults = 1
    /\ Cardinality({ o \in outcome : ~o.ok }) >= 2

\* The encoder.render calls of a renderToFile call.
Renders(c) == { i \in 1..Len(c.attempts) : c.attempts[i].call = "render" }

\* C35: a renderToFile call makes at most two encoder.render calls; when the
\* render of strategy 1 succeeded it is the only one and nothing of strategy
\* 2 is attempted; all render calls of one renderToFile call are made on the
\* same encoder object, whose settings are 30 fps, avc and aac.
C35_RenderAtMostTwice ==
    \A c \in ExportCalls :
        /\ Cardinality(Renders(c)) <= 2
        /\ \A i \in Renders(c) :
            (c.attempts[i].strategy = 1 /\ c.attempts[i].error = "") =>
                Renders(c) = {i} /\ AttemptsOf(c, 2) = {}
        /\ \A i, j \in Renders(c) :
            /\ c.attempts[i].encoder = c.attempts[j].encoder
            /\ c.attempts[i].encoder.fps = 30
            /\ c.attempts[i].encoder.video = "avc"
            /\ c.attempts[i].encoder.audio = "aac"

\* One export whose strategy-1 render succeeded and was its only render,
\* and one export that rendered twice on one encoder.
C35_Witness ==
    /\ \E c \in ExportCalls :
        /\ c.at = "settled"
        /\ \E i \in Renders(c) : c.attempts[i].strategy = 1 /\ c.attempts[i].error = ""
        /\ Cardinality(Renders(c)) = 1
    /\ \E c \in ExportCalls :
        /\ c.at = "settled"
        /\ Cardinality(Renders(c)) = 2
        /\ \A i, j \in Renders(c) : c.attempts[i].encoder = c.attempts[j].encoder


\* C36: reconnectAttempts stays within 0..maxReconnectAttempts, and once
\* more than maxReconnectAttempts abnormal closures of the current socket
\* have followed one another with no successful open between them, no
\* reconnect is scheduled any more.
C36_ReconnectAttemptsBounded ==
    /\ reconnectAttempts \in 0..maxReconnectAttempts
    /\ closures > maxReconnectAttempts => pendingTimeouts = {}

\* C37: while the service is disconnected (disconnect() was the last call
\* of the application) no WebSocket is made, and disconnect() leaves the
\* timeout it held a handle of cancelled.
C37_NoSocketAfterDisconnect ==
    [][/\ (disconnected /\ disconnected') => Len(sockets') = Len(sockets)
       /\ (disconnected' /\ userCalls' # userCalls) =>
              \A t \in pendingTimeouts' : t.id # reconnectTimeout]_vars

\* disconnect() was called while a socket was current, the close event of
\* that socket has scheduled a reconnect, and its timeout has fired.
C37_Witness ==
    /\ disconnected
    /\ reconnectAttempts >= 1
    /\ reconnectTimeout # 0
    /\ pendingTimeouts = {}
    /\ \A i \in 1..Len(sockets) : sockets[i].state = "closed"

\* C38: the close event of a socket that is no longer the current one
\* schedules no reconnect and has no socket made in place of the current
\* one, and at most one reconnect timeout is pending.
C38_StaleCloseIgnored ==
    /\ \A t \in pendingTimeouts : ~t.stale
    /\ \A i \in 1..Len(sockets) : sockets[i].why # "stale"
    /\ Cardinality(pendingTimeouts) <= 1

====
